---------------------------- MODULE Spec2Model ----------------------------
(***************************************************************************)
(* The two secret-key accessors of the repository:                         *)
(*   - the JNI export of android/app/src/main/cpp/native-lib.cpp, which    *)
(*     copies a literal into a local std::string and marshals it with      *)
(*     env->NewStringUTF;                                                  *)
(*   - getSecretKey() of ios/Runner/SecurityUtils.cpp, which returns       *)
(*     c_str() of a function-local static std::string.                     *)
(* Characters are their ASCII codes, a C string is a sequence of codes     *)
(* ending in 0, a managed string is a sequence of UTF-16 code units.       *)
(***************************************************************************)
EXTENDS Integers, Sequences, FiniteSets, TLC

\* Number of concurrent callers (threads of the host application).
NumCallers == 2
\* Total number of accessor invocations explored.
MaxCalls == 3

Callers == 1..NumCallers

\* native-lib.cpp:7, the array "abcdefhijklmnopqrstuvwxyzabcdefghijklmnop"
\* as the compiler lays it out: the characters followed by the terminator.
AndroidLiteral ==
  <<97, 98, 99, 100, 101, 102, 104, 105, 106, 107, 108, 109, 110, 111, 112,
    113, 114, 115, 116, 117, 118, 119, 120, 121, 122, 97, 98, 99, 100, 101,
    102, 103, 104, 105, 106, 107, 108, 109, 110, 111, 112, 0>>

\* SecurityUtils.cpp:7, the array "my32lengthsupersecretnooneknows!!".
IosLiteral ==
  <<109, 121, 51, 50, 108, 101, 110, 103, 116, 104, 115, 117, 112, 101, 114,
    115, 101, 99, 114, 101, 116, 110, 111, 111, 110, 101, 107, 110, 111, 119,
    115, 33, 33, 0>>

\* A cell of allocated memory that has not been written yet.
Uninit == -1

(***************************************************************************)
(* Library functions the accessors call.                                   *)
(***************************************************************************)

\* strlen: the number of cells before the first terminator.
RECURSIVE StrlenFrom(_, _)
StrlenFrom(p, i) ==
  IF i > Len(p) \/ p[i] = 0 THEN 0 ELSE 1 + StrlenFrom(p, i + 1)

Strlen(p) == StrlenFrom(p, 1)

\* StdString with the copy one character short.
StdStringMutDropLast(p) == SubSeq(p, 1, Strlen(p) - 1)

\* std::string(const char*): the characters up to the terminator.
StdString(p) == SubSeq(p, 1, Strlen(p))

\* std::string::c_str(): the contents followed by a terminator.
CStr(s) == s \o <<0>>

\* JNIEnv::NewStringUTF: decodes modified UTF-8 up to the terminator into
\* UTF-16 code units (one, two or three bytes per unit).
RECURSIVE DecodeMUTF8(_, _)
DecodeMUTF8(b, i) ==
  IF i > Len(b) \/ b[i] = 0 THEN <<>>
  ELSE IF b[i] < 128 THEN <<b[i]>> \o DecodeMUTF8(b, i + 1)
  ELSE IF b[i] < 224 /\ i + 1 <= Len(b)
    THEN <<(b[i] % 32) * 64 + (b[i + 1] % 64)>> \o DecodeMUTF8(b, i + 2)
  ELSE IF i + 2 <= Len(b)
    THEN <<(b[i] % 16) * 4096 + (b[i + 1] % 64) * 64 + (b[i + 2] % 64)>>
         \o DecodeMUTF8(b, i + 3)
  ELSE <<>>

\* NewStringUTF with the terminator decoded as a character.
NewStringUTFMutKeepTerminator(bytes) == DecodeMUTF8(bytes, 1) \o <<0>>

\* JNIEnv::NewStringUTF applied to a whole buffer.
NewStringUTF(bytes) == DecodeMUTF8(bytes, 1)

(***************************************************************************)
(* State.                                                                  *)
(***************************************************************************)
VARIABLES
  phase,     \* "running", "exited" (exit() ran the static destructors), "aborted"
  calls,     \* invocations started so far
  pc,        \* each caller's position
  key,       \* native-lib.cpp: each caller's local std::string key
  jret,      \* native-lib.cpp: what NewStringUTF gave the caller (0 = NULL)
  heap,      \* the managed heap: the strings NewStringUTF created
  guard,     \* SecurityUtils.cpp: guard of the static ("uninit", "busy", "done")
  keyBuf,    \* SecurityUtils.cpp: the character buffer of the static key
  keyGen,    \* how many buffers the static has allocated: its address
  keyLive,   \* the static's buffer is allocated and not destroyed
  initPos,   \* next cell the initialising thread copies
  initCount, \* completed initialisations of the static
  result,    \* what each caller's last invocation gave it
  first,     \* per accessor, the value of its first returning invocation
  returns    \* per accessor, how many invocations returned a value

vars == <<phase, calls, pc, key, jret, heap, guard, keyBuf, keyGen, keyLive,
          initPos, initCount, result, first, returns>>

androidVars == <<key, jret, heap>>
iosVars == <<guard, keyBuf, keyGen, keyLive, initPos, initCount>>

NoResult == [acc |-> "none", kind |-> "none", val |-> <<>>, ptr |-> 0]

Init ==
  /\ phase = "running"
  /\ calls = 0
  /\ pc = [t \in Callers |-> "idle"]
  /\ key = [t \in Callers |-> <<>>]
  /\ jret = [t \in Callers |-> 0]
  /\ heap = <<>>
  /\ guard = "uninit"
  /\ keyBuf = <<>>
  /\ keyGen = 0
  /\ keyLive = FALSE
  /\ initPos = 1
  /\ initCount = 0
  /\ result = [t \in Callers |-> NoResult]
  /\ first = [android |-> <<>>, ios |-> <<>>]
  /\ returns = [android |-> 0, ios |-> 0]

\* The caller receives a value: it is recorded as the accessor's first value
\* when no invocation of that accessor has returned one before.
Deliver(t, acc, v, p) ==
  /\ result' = [result EXCEPT ![t] = [acc |-> acc, kind |-> "value", val |-> v, ptr |-> p]]
  /\ first' = IF returns[acc] = 0 THEN [first EXCEPT ![acc] = v] ELSE first
  /\ returns' = [returns EXCEPT ![acc] = @ + 1]

(***************************************************************************)
(* Java_..._NativeKeyProvider_getSecretKey (native-lib.cpp:4-9).           *)
(***************************************************************************)

\* The managed caller enters the native method.
A_Call(t) ==
  /\ phase = "running" /\ pc[t] = "idle" /\ calls < MaxCalls
  /\ calls' = calls + 1
  /\ pc' = [pc EXCEPT ![t] = "a_ctor"]
  /\ UNCHANGED <<phase, androidVars, iosVars, result, first, returns>>

\* Line 7: std::string key = "..."; the 41 characters do not fit the small
\* string buffer, so the constructor allocates and copies.
A_Construct(t) ==
  /\ phase = "running" /\ pc[t] = "a_ctor"
  /\ key' = [key EXCEPT ![t] = StdString(AndroidLiteral)]
  /\ pc' = [pc EXCEPT ![t] = "a_marshal"]
  /\ UNCHANGED <<phase, calls, jret, heap, iosVars, result, first, returns>>

\* Line 7 when the allocation fails: std::bad_alloc leaves the extern "C"
\* function, no handler exists in the runtime's frames, the process terminates.
A_ConstructBadAlloc(t) ==
  /\ phase = "running" /\ pc[t] = "a_ctor"
  /\ phase' = "aborted"
  /\ pc' = [pc EXCEPT ![t] = "terminated"]
  /\ UNCHANGED <<calls, androidVars, iosVars, result, first, returns>>

\* Line 8: env->NewStringUTF(key.c_str()) creates a new managed string.
A_NewStringUTF(t) ==
  /\ phase = "running" /\ pc[t] = "a_marshal"
  /\ heap' = Append(heap, NewStringUTF(CStr(key[t])))
  /\ jret' = [jret EXCEPT ![t] = Len(heap) + 1]
  /\ pc' = [pc EXCEPT ![t] = "a_ret"]
  /\ UNCHANGED <<phase, calls, key, iosVars, result, first, returns>>

\* Line 8 when the runtime cannot allocate: NewStringUTF returns NULL with an
\* OutOfMemoryError pending.
A_NewStringUTFFails(t) ==
  /\ phase = "running" /\ pc[t] = "a_marshal"
  /\ jret' = [jret EXCEPT ![t] = 0]
  /\ pc' = [pc EXCEPT ![t] = "a_ret"]
  /\ UNCHANGED <<phase, calls, key, heap, iosVars, result, first, returns>>

\* A_Return with the key shared by all callers instead of local to the call.
A_ReturnMutSharedKey(t) ==
  /\ phase = "running" /\ pc[t] = "a_ret"
  /\ IF jret[t] = 0
       THEN /\ result' = [result EXCEPT ![t] =
                 [acc |-> "android", kind |-> "oom", val |-> <<>>, ptr |-> 0]]
            /\ UNCHANGED <<first, returns>>
       ELSE Deliver(t, "android", heap[jret[t]], jret[t])
  /\ key' = [u \in Callers |-> <<>>]
  /\ jret' = [jret EXCEPT ![t] = 0]
  /\ pc' = [pc EXCEPT ![t] = "idle"]
  /\ UNCHANGED <<phase, calls, heap, iosVars>>

\* A_Return that drops the failure of NewStringUTF.
A_ReturnMutSwallowsFailure(t) ==
  /\ phase = "running" /\ pc[t] = "a_ret"
  /\ IF jret[t] = 0
       THEN /\ result' = [result EXCEPT ![t] = NoResult]
            /\ UNCHANGED <<first, returns>>
       ELSE Deliver(t, "android", heap[jret[t]], jret[t])
  /\ key' = [key EXCEPT ![t] = <<>>]
  /\ jret' = [jret EXCEPT ![t] = 0]
  /\ pc' = [pc EXCEPT ![t] = "idle"]
  /\ UNCHANGED <<phase, calls, heap, iosVars>>

\* Lines 8-9: return what NewStringUTF gave; the local key is destroyed.  A
\* NULL with the pending exception reaches the managed caller as the
\* OutOfMemoryError, a reference as the string it refers to.
A_Return(t) ==
  /\ phase = "running" /\ pc[t] = "a_ret"
  /\ IF jret[t] = 0
       THEN /\ result' = [result EXCEPT ![t] =
                 [acc |-> "android", kind |-> "oom", val |-> <<>>, ptr |-> 0]]
            /\ UNCHANGED <<first, returns>>
       ELSE Deliver(t, "android", heap[jret[t]], jret[t])
  /\ key' = [key EXCEPT ![t] = <<>>]
  /\ jret' = [jret EXCEPT ![t] = 0]
  /\ pc' = [pc EXCEPT ![t] = "idle"]
  /\ UNCHANGED <<phase, calls, heap, iosVars>>

(***************************************************************************)
(* getSecretKey (SecurityUtils.cpp:4-9).                                   *)
(***************************************************************************)

\* The platform-plugin caller enters the function.
I_Call(t) ==
  /\ phase = "running" /\ pc[t] = "idle" /\ calls < MaxCalls
  /\ calls' = calls + 1
  /\ pc' = [pc EXCEPT ![t] = "i_guard"]
  /\ UNCHANGED <<phase, androidVars, iosVars, result, first, returns>>

\* I_Guard without the wait: a static built without thread-safe initialisation.
I_GuardMutNoWait(t) ==
  /\ phase = "running" /\ pc[t] = "i_guard"
  /\ \/ /\ guard # "uninit"
        /\ pc' = [pc EXCEPT ![t] = "i_cstr"]
        /\ guard' = guard
     \/ /\ guard = "uninit"
        /\ guard' = "busy"
        /\ pc' = [pc EXCEPT ![t] = "i_alloc"]
  /\ UNCHANGED <<phase, calls, androidVars, keyBuf, keyGen, keyLive, initPos,
                 initCount, result, first, returns>>

\* Line 7, the guard of the function-local static: an initialised static is
\* used as it is, an uninitialised one is claimed by this thread, and while
\* another thread initialises it this thread waits.
I_Guard(t) ==
  /\ phase = "running" /\ pc[t] = "i_guard"
  /\ \/ /\ guard = "done"
        /\ pc' = [pc EXCEPT ![t] = "i_cstr"]
        /\ guard' = guard
     \/ /\ guard = "uninit"
        /\ guard' = "busy"
        /\ pc' = [pc EXCEPT ![t] = "i_alloc"]
  /\ UNCHANGED <<phase, calls, androidVars, keyBuf, keyGen, keyLive, initPos,
                 initCount, result, first, returns>>

\* I_InitAlloc with no cell for the terminator.
I_InitAllocMutNoRoom(t) ==
  /\ phase = "running" /\ pc[t] = "i_alloc"
  /\ keyBuf' = [i \in 1..Strlen(IosLiteral) |-> Uninit]
  /\ keyGen' = keyGen + 1
  /\ keyLive' = TRUE
  /\ initPos' = 1
  /\ pc' = [pc EXCEPT ![t] = "i_copy"]
  /\ UNCHANGED <<phase, calls, androidVars, guard, initCount, result, first, returns>>

\* Line 7, the constructor of the static: the 33 characters do not fit the
\* small string buffer, so it allocates strlen + 1 cells.
I_InitAlloc(t) ==
  /\ phase = "running" /\ pc[t] = "i_alloc"
  /\ keyBuf' = [i \in 1..(Strlen(IosLiteral) + 1) |-> Uninit]
  /\ keyGen' = keyGen + 1
  /\ keyLive' = TRUE
  /\ initPos' = 1
  /\ pc' = [pc EXCEPT ![t] = "i_copy"]
  /\ UNCHANGED <<phase, calls, androidVars, guard, initCount, result, first, returns>>

\* Line 7 when the allocation fails: the guard is released uninitialised and
\* std::bad_alloc leaves getSecretKey; a caller that handles it goes on, and
\* without a handler the process terminates.
I_InitBadAlloc(t) ==
  /\ phase = "running" /\ pc[t] = "i_alloc"
  /\ guard' = "uninit"
  /\ \/ /\ result' = [result EXCEPT ![t] =
             [acc |-> "ios", kind |-> "bad_alloc", val |-> <<>>, ptr |-> 0]]
        /\ pc' = [pc EXCEPT ![t] = "idle"]
        /\ phase' = phase
     \/ /\ phase' = "aborted"
        /\ pc' = [pc EXCEPT ![t] = "terminated"]
        /\ result' = result
  /\ UNCHANGED <<calls, androidVars, keyBuf, keyGen, keyLive, initPos,
                 initCount, first, returns>>

\* I_InitCopy that stops one character early.
I_InitCopyMutOffByOne(t) ==
  /\ phase = "running" /\ pc[t] = "i_copy"
  /\ initPos <= Len(keyBuf)
  /\ keyBuf' = [keyBuf EXCEPT ![initPos] =
                  IF initPos < Strlen(IosLiteral) THEN IosLiteral[initPos] ELSE 0]
  /\ initPos' = initPos + 1
  /\ UNCHANGED <<phase, calls, pc, androidVars, guard, keyGen, keyLive,
                 initCount, result, first, returns>>

\* Line 7, the constructor copies the characters one cell at a time and
\* writes the terminator last.
I_InitCopy(t) ==
  /\ phase = "running" /\ pc[t] = "i_copy"
  /\ initPos <= Len(keyBuf)
  /\ keyBuf' = [keyBuf EXCEPT ![initPos] =
                  IF initPos <= Strlen(IosLiteral) THEN IosLiteral[initPos] ELSE 0]
  /\ initPos' = initPos + 1
  /\ UNCHANGED <<phase, calls, pc, androidVars, guard, keyGen, keyLive,
                 initCount, result, first, returns>>

\* I_GuardRelease that leaves the guard uninitialised: every call initialises again.
I_GuardReleaseMutNotDone(t) ==
  /\ phase = "running" /\ pc[t] = "i_copy"
  /\ initPos > Len(keyBuf)
  /\ guard' = "uninit"
  /\ initCount' = initCount + 1
  /\ pc' = [pc EXCEPT ![t] = "i_cstr"]
  /\ UNCHANGED <<phase, calls, androidVars, keyBuf, keyGen, keyLive, initPos,
                 result, first, returns>>

\* Line 7, the constructor has returned: the static's destructor is
\* registered to run at exit and the guard is marked initialised.
I_GuardRelease(t) ==
  /\ phase = "running" /\ pc[t] = "i_copy"
  /\ initPos > Len(keyBuf)
  /\ guard' = "done"
  /\ initCount' = initCount + 1
  /\ pc' = [pc EXCEPT ![t] = "i_cstr"]
  /\ UNCHANGED <<phase, calls, androidVars, keyBuf, keyGen, keyLive, initPos,
                 result, first, returns>>

\* I_Return that empties the static after handing out its address.
I_ReturnMutMovesKey(t) ==
  /\ phase = "running" /\ pc[t] = "i_cstr"
  /\ Deliver(t, "ios", keyBuf, keyGen)
  /\ keyBuf' = <<0>>
  /\ pc' = [pc EXCEPT ![t] = "idle"]
  /\ UNCHANGED <<phase, calls, androidVars, guard, keyGen, keyLive, initPos,
                 initCount>>

\* Line 8: return key.c_str(); the caller gets the address of the static's
\* buffer and reads the characters there.
I_Return(t) ==
  /\ phase = "running" /\ pc[t] = "i_cstr"
  /\ Deliver(t, "ios", keyBuf, keyGen)
  /\ pc' = [pc EXCEPT ![t] = "idle"]
  /\ UNCHANGED <<phase, calls, androidVars, iosVars>>

(***************************************************************************)
(* Process teardown.                                                       *)
(***************************************************************************)

\* exit(): the destructors registered by initialised statics run, so the
\* static key of SecurityUtils.cpp:7 releases its buffer.  The callers'
\* activity ends here.
Exit ==
  /\ phase = "running"
  /\ phase' = "exited"
  /\ keyLive' = IF guard = "done" THEN FALSE ELSE keyLive
  /\ UNCHANGED <<calls, pc, androidVars, guard, keyBuf, keyGen, initPos,
                 initCount, result, first, returns>>

Next ==
  \/ \E t \in Callers : A_Call(t)
  \/ \E t \in Callers : A_Construct(t)
  \/ \E t \in Callers : A_ConstructBadAlloc(t)
  \/ \E t \in Callers : A_NewStringUTF(t)
  \/ \E t \in Callers : A_NewStringUTFFails(t)
  \/ \E t \in Callers : A_Return(t)
  \/ \E t \in Callers : I_Call(t)
  \/ \E t \in Callers : I_Guard(t)
  \/ \E t \in Callers : I_InitAlloc(t)
  \/ \E t \in Callers : I_InitBadAlloc(t)
  \/ \E t \in Callers : I_InitCopy(t)
  \/ \E t \in Callers : I_GuardRelease(t)
  \/ \E t \in Callers : I_Return(t)
  \/ Exit

Spec == Init /\ [][Next]_vars

(***************************************************************************)
(* Properties.                                                             *)
(***************************************************************************)

\* The string the managed-bridge accessor is expected to return,
\* "abcdefhijklmnopqrstuvwxyzabcdefghijklmnop", as code units.
ExpectedManagedKey ==
  <<97, 98, 99, 100, 101, 102, 104, 105, 106, 107, 108, 109, 110, 111, 112,
    113, 114, 115, 116, 117, 118, 119, 120, 121, 122, 97, 98, 99, 100, 101,
    102, 103, 104, 105, 106, 107, 108, 109, 110, 111, 112>>

\* The string the plain-native accessor is expected to return,
\* "my32lengthsupersecretnooneknows!!", as characters.
ExpectedPlainKey ==
  <<109, 121, 51, 50, 108, 101, 110, 103, 116, 104, 115, 117, 112, 101, 114,
    115, 101, 99, 114, 101, 116, 110, 111, 111, 110, 101, 107, 110, 111, 119,
    115, 33, 33>>

GotValue(t, acc) == result[t].acc = acc /\ result[t].kind = "value"

\* The characters a reader of the returned pointer sees before the terminator.
RECURSIVE ReadCString(_, _)
ReadCString(b, i) ==
  IF i > Len(b) \/ b[i] = 0 THEN <<>> ELSE <<b[i]>> \o ReadCString(b, i + 1)

\* C1: whenever marshalling succeeds, the managed string a caller receives
\* from the managed-bridge accessor is exactly the expected literal.
C1_ManagedKeyIsLiteral ==
  \A t \in Callers : GotValue(t, "android") => result[t].val = ExpectedManagedKey

C1_Witness ==
  \E t \in Callers : GotValue(t, "android") /\ result[t].val = ExpectedManagedKey

\* C2: the plain-native accessor returns a character sequence that ends in
\* the terminator and whose characters before it are exactly the expected
\* literal.
C2_PlainKeyIsLiteral ==
  \A t \in Callers : GotValue(t, "ios") =>
    /\ Len(result[t].val) > 0
    /\ result[t].val[Len(result[t].val)] = 0
    /\ ReadCString(result[t].val, 1) = ExpectedPlainKey
    /\ Len(result[t].val) = Len(ExpectedPlainKey) + 1

C2_Witness ==
  \E t \in Callers : GotValue(t, "ios") /\ ReadCString(result[t].val, 1) = ExpectedPlainKey

\* C3: for each accessor, every invocation that returns a value returns the
\* value its first returning invocation returned.
C3_SameAsFirst ==
  \A t \in Callers : result[t].kind = "value" => result[t].val = first[result[t].acc]

C3_Witness ==
  /\ returns.ios >= 2 /\ returns.android >= 1
  /\ \E t \in Callers : GotValue(t, "ios") /\ result[t].val = first.ios

\* C4: under every interleaving of callers, first-call races on the static
\* included, no caller reads the static while it is partially initialised
\* and every value a caller receives is the full literal.
C4_NoPartialValue ==
  /\ \A t \in Callers : pc[t] = "i_cstr" =>
       /\ guard = "done"
       /\ \A i \in DOMAIN keyBuf : keyBuf[i] # Uninit
  /\ \A t \in Callers : GotValue(t, "ios") =>
       /\ \A i \in DOMAIN result[t].val : result[t].val[i] # Uninit
       /\ Len(ReadCString(result[t].val, 1)) = Len(ExpectedPlainKey)
  /\ \A t \in Callers : GotValue(t, "android") =>
       Len(result[t].val) = Len(ExpectedManagedKey)

\* Two callers race on the first call: one is copying, the other waits.
C4_Witness ==
  \E t, u \in Callers :
    /\ t # u
    /\ pc[t] = "i_copy" /\ initPos > 1 /\ initPos <= Len(keyBuf)
    /\ pc[u] = "i_guard" /\ guard = "busy" /\ initCount = 0

\* C5 as stated: the managed-bridge accessor's value has 42 characters.
C5_LengthIs42 ==
  \A t \in Callers : GotValue(t, "android") => Len(result[t].val) = 42

\* C5 amended: the managed-bridge accessor's value has 41 characters.
C5_LengthIs41 ==
  \A t \in Callers : GotValue(t, "android") => Len(result[t].val) = 41

C5_Witness ==
  \E t \in Callers : GotValue(t, "android") /\ Len(result[t].val) = 41

\* C6 as stated: the plain-native accessor's string has 34 characters.
C6_LengthIs34 ==
  \A t \in Callers : GotValue(t, "ios") => Len(ReadCString(result[t].val, 1)) = 34

\* C6 amended: the plain-native accessor's string has 33 characters before
\* its terminator.
C6_LengthIs33 ==
  \A t \in Callers : GotValue(t, "ios") => Len(ReadCString(result[t].val, 1)) = 33

C6_Witness ==
  \E t \in Callers : GotValue(t, "ios") /\ Len(ReadCString(result[t].val, 1)) = 33

\* C7: a value of the plain-native accessor and a value of the
\* managed-bridge accessor are the same string.
C7_SameKeyOnBothPlatforms ==
  \A t, u \in Callers :
    (GotValue(t, "android") /\ GotValue(u, "ios")) =>
      result[t].val = ReadCString(result[u].val, 1)

\* What every pointer the plain-native accessor returned must still satisfy.
ReturnedPointersValid ==
  /\ initCount <= 1
  /\ \A t \in Callers : GotValue(t, "ios") =>
       /\ initCount = 1
       /\ result[t].ptr = keyGen
       /\ keyLive
       /\ ReadCString(keyBuf, 1) = ExpectedPlainKey

\* C8 as stated: the static is initialised once and never destroyed, so in
\* every state, process teardown included, every returned pointer is the
\* same and refers to live storage holding the literal.
C8_NeverDestroyed == ReturnedPointersValid

\* C8 amended: the same until exit() runs the static's destructor.
C8_LiveUntilExit == phase # "exited" => ReturnedPointersValid

C8_Witness ==
  /\ phase = "running" /\ returns.ios >= 2
  /\ \A t \in Callers : GotValue(t, "ios") /\ result[t].ptr = keyGen /\ keyLive

\* C9 as stated: the only failure of an invocation is the marshalling
\* failure of the managed-bridge accessor, reported as out-of-memory.
C9_OnlyMarshallingFails ==
  /\ phase # "aborted"
  /\ \A t \in Callers : result[t].kind \in {"none", "value", "oom"}

\* C9 amended: an invocation fails only where it allocates.  The
\* managed-bridge accessor fails in the constructor of its local string
\* (the process terminates) or in NewStringUTF, whose NULL it returns
\* unchanged as the out-of-memory outcome, leaving all shared state as it
\* was; the plain-native accessor fails only in the allocation of the first
\* initialisation, never once the static is initialised.
C9_FailuresOnlyFromAllocation ==
  [][ /\ \A t \in Callers :
           /\ result'[t] # result[t]
                => result'[t].kind \in {"value", "oom", "bad_alloc"}
           /\ (result'[t] # result[t] /\ result'[t].kind = "oom")
                => /\ pc[t] = "a_ret" /\ jret[t] = 0
                   /\ UNCHANGED <<heap, guard, keyBuf, keyGen, keyLive, first>>
           /\ (pc[t] = "a_ret" /\ pc'[t] # pc[t] /\ jret[t] = 0)
                => result'[t].acc = "android" /\ result'[t].kind = "oom"
           /\ (pc[t] = "a_ret" /\ pc'[t] # pc[t] /\ jret[t] # 0)
                => result'[t].kind = "value" /\ result'[t].val = heap[jret[t]]
           /\ (result'[t] # result[t] /\ result'[t].kind = "bad_alloc")
                => pc[t] = "i_alloc" /\ initCount = 0
           /\ (pc'[t] = "terminated" /\ pc[t] # "terminated")
                => \/ pc[t] = "a_ctor"
                   \/ pc[t] = "i_alloc" /\ initCount = 0
      /\ (phase' = "aborted" /\ phase # "aborted")
           => \E t \in Callers : pc'[t] = "terminated" /\ pc[t] # "terminated"
    ]_vars

\* A marshalling failure was reported to one caller while the process runs
\* on and another caller holds the string of its own invocation.
C9_Witness ==
  \E t, u \in Callers :
    /\ result[t].acc = "android" /\ result[t].kind = "oom"
    /\ GotValue(u, "android") /\ phase = "running"

AndroidPcs == {"a_ctor", "a_marshal", "a_ret"}
IosPcs == {"i_guard", "i_alloc", "i_copy", "i_cstr"}

\* C10: no invocation mutates the secret.  A step of the managed-bridge
\* accessor changes only its own local key, its own pending return and the
\* managed heap, which only grows by the new string; once the static is
\* initialised, no step of the plain-native accessor changes it.
C10_NoSideEffects ==
  [][ /\ \A t \in Callers : (pc[t] \in AndroidPcs /\ pc'[t] # pc[t]) =>
           /\ UNCHANGED iosVars
           /\ \A u \in Callers : u # t => key'[u] = key[u] /\ jret'[u] = jret[u]
           /\ Len(heap') >= Len(heap)
           /\ \A i \in DOMAIN heap : heap'[i] = heap[i]
      /\ initCount >= 1 =>
           /\ keyBuf' = keyBuf /\ keyGen' = keyGen /\ initCount' = initCount
           /\ guard' = guard
           /\ \A t \in Callers : (pc[t] \in IosPcs /\ pc'[t] # pc[t]) => keyLive' = keyLive
    ]_vars

\* An initialised static has served two calls while a managed-bridge call
\* is in progress with its local copy.
C10_Witness ==
  /\ initCount = 1 /\ returns.ios >= 2
  /\ \E t \in Callers : pc[t] = "a_ret" /\ key[t] # <<>>

=============================================================================
